---- MODULE Spec2Model ----
(***************************************************************************)
(* VeritasChain: the audit pipeline of VeritasAgent (veritas_agent.py),    *)
(* the chain-facts provider and the scoring helpers of                     *)
(* blockchain_analyzer.py.                                                 *)
(*                                                                         *)
(* Conventions.                                                            *)
(*  - A Python str built from pieces (an f-string) is the sequence of its  *)
(*    pieces: "Active usage (1500 transactions)" is                        *)
(*    <<"Active usage (", "1500", " transactions)">>; a literal is <<s>>.  *)
(*  - An identifier is the sequence of its characters, so that len() and   *)
(*    startswith() are computed, not assumed.                              *)
(*  - A float confidence c is the integer 100*c (0.5 is 50, 0.7 is 70).    *)
(*  - A JSON / Python value whose type the code tests or relies on is a    *)
(*    record tagged with its type in field t.                              *)
(***************************************************************************)
EXTENDS Integers, Sequences, FiniteSets, TLC

VARIABLES
    pc,                 \* position of the audit_project coroutine
    project_identifier, \* argument of audit_project
    project_data,       \* ProjectData built by _collect_project_data
    on_chain,           \* dict returned by _analyze_on_chain_data
    off_chain,          \* dict returned by _analyze_off_chain_data
    evidence,           \* evidence dict of _generate_veritas_score
    ai_analysis,        \* value returned by _ai_score_analysis
    veritas_score,      \* VeritasScore built by _generate_veritas_score
    analysis_history,   \* VeritasAgent.analysis_history
    oracle_reply,       \* what the chat-completion call did
    boundary_calls,     \* log of the calls that left the process, in order
    dist_pc,            \* position of a _calculate_distribution_score call
    dist_input,         \* its argument holder_analysis
    dist_score,         \* its result
    quick_pc,           \* position of a quick_contract_score call
    quick_fetched,      \* what its analyze_contract call did
    quick_score,        \* its result
    norm_pc,            \* position of a _serialize_analysis_data call
    norm_input,         \* its argument data
    norm_output,        \* its result
    suspended,          \* locals of the audit_project coroutine not running
    in_call,            \* the synchronous boundary call the thread is inside
    replies             \* what the boundary calls of the running audit did

vars == <<pc, project_identifier, project_data, on_chain, off_chain, evidence,
          ai_analysis, veritas_score, analysis_history, oracle_reply,
          boundary_calls, dist_pc, dist_input, dist_score,
          quick_pc, quick_fetched, quick_score,
          norm_pc, norm_input, norm_output, suspended, in_call, replies>>

auditVars == <<pc, project_identifier, project_data, on_chain, off_chain,
               evidence, ai_analysis, veritas_score, analysis_history,
               oracle_reply, boundary_calls>>

distVars == <<dist_pc, dist_input, dist_score>>

quickVars == <<quick_pc, quick_fetched, quick_score>>

normVars == <<norm_pc, norm_input, norm_output>>

\* the variables of the calls of single functions
pureVars == <<distVars, quickVars, normVars>>

\* the event loop: a second coroutine, and the call that holds the thread
loopVars == <<suspended, in_call, replies>>

None == [t |-> "None"]

Str(s) == <<s>>

\* a Python str held where the code also holds None
PyStr(chars) == [t |-> "str", v |-> chars]

\* Python truthiness of an Optional[str]
Truthy(x) == x.t = "str" /\ Len(x.v) > 0

(***************************************************************************)
(* Identifiers handed to audit_project.                                    *)
(***************************************************************************)
Repeat(c, n) == [i \in 1..n |-> c]

ADDRESS_LEN == 42

HexDigits == {"0", "1", "2", "3", "4", "5", "6", "7", "8", "9",
              "a", "b", "c", "d", "e", "f"}

HexAddress == <<"0", "x">> \o Repeat("1", 40)

NonHexAddress == <<"0", "x">> \o Repeat("z", 40)

ShortAddress == <<"0", "x">> \o Repeat("1", 39)

LongAddress == <<"0", "x">> \o Repeat("1", 41)

NoPrefix42 == Repeat("1", 42)

ProjectName == <<"U", "n", "i", "s", "w", "a", "p">>

Identifiers == {HexAddress, NonHexAddress, ShortAddress, LongAddress,
                NoPrefix42, ProjectName, <<>>}

\* faulty variant: the length test forgotten
IsAddressShapedPrefixOnly(identifier) ==
    /\ Len(identifier) >= 2
    /\ SubSeq(identifier, 1, 2) = <<"0", "x">>

\* len(identifier) == 42 and identifier.startswith('0x')
IsAddressShaped(identifier) ==
    /\ Len(identifier) = ADDRESS_LEN
    /\ SubSeq(identifier, 1, 2) = <<"0", "x">>

\* w3.is_address on a lower-case string: "0x" and forty hex digits
W3IsAddress(address) ==
    /\ Len(address) = ADDRESS_LEN
    /\ SubSeq(address, 1, 2) = <<"0", "x">>
    /\ \A i \in 3..Len(address) : address[i] \in HexDigits

(***************************************************************************)
(* The chain-facts provider: VeritasBlockchainAnalyzer.analyze_contract.   *)
(***************************************************************************)
TxCounts == {9, 100, 1500}

Interactors == {50, 450}

\* the lists _analyze_contract_security returns today, the empty list, and
\* a list that repeats a string the off-chain scorer also reports
RiskLists ==
    {<<>>,
     <<Str("Owner has full control"), Str("No timelock on critical functions")>>,
     <<Str("Limited team information")>>}

IndicatorLists ==
    {<<>>,
     <<Str("Contract verified"), Str("No obvious vulnerabilities"),
       Str("Standard patterns used")>>,
     <<Str("Active community")>>}

\* to_checksum_address leaves an address without hex letters as it is
ContractAnalysis(address, verified, tx, users, indicators, risks) ==
    [address |-> address,
     is_verified |-> verified,
     creation_date |-> Str("creation_date"),
     transaction_count |-> tx,
     unique_interactors |-> users,
     total_value_locked |-> 2500000,
     security_indicators |-> indicators,
     risk_factors |-> risks]

ChainFacts(address) ==
    {ContractAnalysis(address, v, tx, u, ind, r) :
        v \in BOOLEAN, tx \in TxCounts, u \in Interactors,
        ind \in IndicatorLists, r \in RiskLists}

Raised(cause) == [ok |-> FALSE, cause |-> cause]

Returned(value) == [ok |-> TRUE, value |-> value]

\* what one call of analyze_contract can do
AnalyzeContract(address) ==
    IF ~W3IsAddress(address)
    THEN {Raised(Str("No connection available for ethereum")),
          Raised(Str("Invalid address format"))}
    ELSE {Raised(Str("No connection available for ethereum")),
          Raised(Str("get_code failed")),
          Raised(Str("Address is not a contract"))}
         \cup {Returned(f) : f \in ChainFacts(address)}

(***************************************************************************)
(* quick_contract_score (blockchain_analyzer.py).                          *)
(***************************************************************************)
MIN_SCORE == 1

MAX_SCORE == 100

Max(a, b) == IF a >= b THEN a ELSE b

Min(a, b) == IF a <= b THEN a ELSE b

\* faulty variant: the last bonus given when risk factors were found
ContractScoreRiskInverted(analysis) ==
    LET s0 == 50
        s1 == IF analysis.is_verified THEN s0 + 20 ELSE s0
        s2 == IF analysis.transaction_count > 100 THEN s1 + 10 ELSE s1
        s3 == IF analysis.unique_interactors > 50 THEN s2 + 10 ELSE s2
        s4 == IF Len(analysis.risk_factors) # 0 THEN s3 + 10 ELSE s3
    IN  Min(MAX_SCORE, Max(MIN_SCORE, s4))

\* the scoring algorithm applied to a fetched analysis
ContractScore(analysis) ==
    LET s0 == 50
        s1 == IF analysis.is_verified THEN s0 + 20 ELSE s0
        s2 == IF analysis.transaction_count > 100 THEN s1 + 10 ELSE s1
        s3 == IF analysis.unique_interactors > 50 THEN s2 + 10 ELSE s2
        s4 == IF Len(analysis.risk_factors) = 0 THEN s3 + 10 ELSE s3
    IN  Min(MAX_SCORE, Max(MIN_SCORE, s4))

\* faulty variant: the except branch returns 0
QuickContractScoreZeroOnError(fetched) ==
    IF fetched.ok THEN ContractScore(fetched.value) ELSE 0

\* quick_contract_score, given what its own analyze_contract call did
QuickContractScore(fetched) ==
    IF fetched.ok THEN ContractScore(fetched.value) ELSE 50

(***************************************************************************)
(* VeritasAgent._collect_project_data.                                     *)
(***************************************************************************)
ContractPrefix == <<"C", "o", "n", "t", "r", "a", "c", "t", "_">>

\* identifier[:8]
Prefix8(identifier) == SubSeq(identifier, 1, Min(8, Len(identifier)))

EmptyDict == <<>>

NewProjectData(identifier) ==
    LET is_address == IsAddressShaped(identifier)
    IN  [name |-> IF ~is_address THEN identifier
                  ELSE ContractPrefix \o Prefix8(identifier),
         address |-> IF is_address THEN PyStr(identifier) ELSE None,
         on_chain_data |-> EmptyDict,
         off_chain_data |-> EmptyDict]

BasicAnalysis(contract_analysis) ==
    [basic_analysis |->
        [verified |-> contract_analysis.is_verified,
         transaction_count |-> contract_analysis.transaction_count,
         creation_date |-> contract_analysis.creation_date]]

\* what quick_project_scan can do: the scan's dict, or an exception
WebsiteContents == {<<>>, Str("website text")}

QuickProjectScan(name, address) ==
    {Raised(Str("scan failed"))}
    \cup {Returned([project_mentions |-> [official_content |-> c],
                    social_sentiment |-> Str("neutral"),
                    team_verification |-> [verified_members |-> 2],
                    scan_timestamp |-> Str("2024-01-01T00:00:00Z")]) :
             c \in WebsiteContents}

Call(provider, outcome) ==
    [provider |-> provider, step |-> pc, ok |-> outcome.ok]

(***************************************************************************)
(* VeritasAgent._analyze_on_chain_data.                                    *)
(***************************************************************************)
NoAddressResult ==
    [score |-> 30,
     factors |-> <<>>,
     risks |-> <<Str("No contract address provided")>>,
     analysis |-> [t |-> "str",
                   v |-> Str("Cannot perform on-chain analysis without contract address")]]

AnalysisFailedResult(cause) ==
    [score |-> 20,
     factors |-> <<>>,
     risks |-> << <<"Analysis failed: ">> \o cause >>,
     analysis |-> [t |-> "str", v |-> Str("Error during on-chain analysis")]]

PositiveFactors(contract_analysis) ==
    (IF contract_analysis.is_verified
     THEN <<Str("Contract source code verified")>> ELSE <<>>)
    \o (IF contract_analysis.transaction_count > 100
        THEN << <<"Active usage (",
                  ToString(contract_analysis.transaction_count),
                  " transactions)">> >>
        ELSE <<>>)
    \o (IF contract_analysis.unique_interactors > 50
        THEN << <<"Diverse user base (",
                  ToString(contract_analysis.unique_interactors),
                  " unique users)">> >>
        ELSE <<>>)
    \o contract_analysis.security_indicators

\* faulty variant: the warnings are put before the provider's risks
RiskFactorsWarningsFirst(contract_analysis) ==
    (IF contract_analysis.transaction_count < 10
     THEN <<Str("Very low transaction activity")>> ELSE <<>>)
    \o (IF ~contract_analysis.is_verified
        THEN <<Str("Contract source code not verified")>> ELSE <<>>)
    \o contract_analysis.risk_factors

RiskFactors(contract_analysis) ==
    contract_analysis.risk_factors
    \o (IF contract_analysis.transaction_count < 10
        THEN <<Str("Very low transaction activity")>> ELSE <<>>)
    \o (IF ~contract_analysis.is_verified
        THEN <<Str("Contract source code not verified")>> ELSE <<>>)

OnChainResult(contract_analysis, score) ==
    [score |-> score,
     factors |-> PositiveFactors(contract_analysis),
     risks |-> RiskFactors(contract_analysis),
     analysis |-> [t |-> "ContractAnalysis", v |-> contract_analysis],
     total_value_locked |-> contract_analysis.total_value_locked]

(***************************************************************************)
(* VeritasAgent._analyze_off_chain_data.                                   *)
(***************************************************************************)
OffChainResult ==
    [score |-> 75,
     factors |-> <<Str("Positive media coverage"), Str("Active community")>>,
     risks |-> <<Str("Limited team information")>>]

(***************************************************************************)
(* VeritasAgent._serialize_analysis_data on the scorers' dicts: every value *)
(* but an object under the key "analysis" is a primitive or a list of      *)
(* primitives and is returned as it is.                                    *)
(***************************************************************************)
SerializedAnalysis(value) ==
    [address |-> value.address,
     is_verified |-> value.is_verified,
     transaction_count |-> value.transaction_count,
     unique_interactors |-> value.unique_interactors,
     risk_factors |-> value.risk_factors,
     security_indicators |-> value.security_indicators]

\* hasattr(value, '__dict__'): an instance of a dataclass or of any class
HasDict(value) == value.t \in {"ContractAnalysis", "object"}

SerializeAnalysisData(data) ==
    [key \in DOMAIN data |->
        IF key = "analysis" /\ HasDict(data[key])
        THEN SerializedAnalysis(data[key].v)
        ELSE data[key]]

Evidence(pd, on, off) ==
    [on_chain |-> SerializeAnalysisData(on),
     off_chain |-> SerializeAnalysisData(off),
     project_data |-> [name |-> pd.name, address |-> pd.address]]

(***************************************************************************)
(* VeritasAgent._ai_score_analysis: the oracle's reply and what the        *)
(* adapter makes of it.                                                    *)
(***************************************************************************)
Num(n) == [t |-> "num", v |-> n]

JsonStr(s) == [t |-> "str", v |-> s]

Dict(d) == [t |-> "dict", v |-> d]

Judgment(confidence, risk_level) ==
    Dict([confidence |-> confidence,
          key_insights |-> <<Str("insight")>>,
          risk_level |-> risk_level,
          recommendation |-> Str("Proceed with caution")])

\* the values json.loads can return for a reply that parses
JsonReplies ==
    {Judgment(Num(0), "low"), Judgment(Num(90), "high"),
     Judgment(Num(100), "medium")}
    \cup {Judgment(Num(150), "low"), Judgment(Num(-20), "medium"),
          Judgment(JsonStr("high"), "medium"),
          Judgment(Num(90), "critical"),
          Dict([risk_level |-> "low"]),
          Dict([confidence |-> Num(80)]),
          Dict(EmptyDict),
          [t |-> "list", v |-> <<>>],
          Num(1)}

OracleReplies ==
    {[kind |-> "raise"], [kind |-> "empty"], [kind |-> "unparseable"]}
    \cup {[kind |-> "json", value |-> j] : j \in JsonReplies}

DefaultJudgment ==
    Dict([confidence |-> Num(50),
          key_insights |-> <<Str("AI analysis incomplete due to error")>>,
          risk_level |-> "medium",
          recommendation |-> Str("Manual review recommended")])

\* the try body returns json.loads(content); every exception gives the default
AiScoreAnalysis(reply) ==
    IF reply.kind = "json" THEN reply.value ELSE DefaultJudgment

(***************************************************************************)
(* VeritasAgent._generate_veritas_score: the weighted score.               *)
(***************************************************************************)
\* the pairs (on, off) in 1..100 for which the IEEE-754 double
\* on*0.6 + off*0.4 is one ulp below the integer it equals exactly
Ieee754Below ==
    {<<6, 1>>, <<12, 2>>, <<24, 4>>, <<31, 1>>, <<36, 1>>, <<41, 1>>,
     <<46, 1>>, <<48, 3>>, <<48, 8>>, <<51, 1>>, <<57, 2>>, <<57, 7>>,
     <<62, 2>>, <<62, 7>>, <<67, 2>>, <<67, 7>>, <<72, 2>>, <<72, 7>>,
     <<77, 2>>, <<77, 7>>, <<82, 2>>, <<82, 7>>, <<87, 2>>, <<87, 7>>,
     <<92, 2>>, <<92, 7>>, <<96, 1>>, <<96, 6>>, <<96, 11>>, <<96, 16>>,
     <<97, 2>>, <<97, 7>>}

\* int(on*0.6 + off*0.4): truncation of the double
WeightedInt(on, off) ==
    LET exact == (6 * on + 4 * off) \div 10
    IN  IF <<on, off>> \in Ieee754Below THEN exact - 1 ELSE exact

OverallScore(on, off) == Max(MIN_SCORE, Min(MAX_SCORE, WeightedInt(on, off)))

\* dict.get(key, default)
Get(d, key, default) == IF key \in DOMAIN d THEN d[key] ELSE default

\* faulty variant: the off-chain entries already reported on-chain are dropped
VeritasScoreDeduplicated(on, off, ai, ev) ==
    [overall_score |-> OverallScore(on.score, off.score),
     confidence_level |-> Get(ai.v, "confidence", Num(70)),
     on_chain_score |-> on.score,
     off_chain_score |-> off.score,
     risk_factors |->
        on.risks \o SelectSeq(off.risks,
                              LAMBDA x : \A i \in DOMAIN on.risks : on.risks[i] # x),
     positive_factors |->
        on.factors \o SelectSeq(off.factors,
                                LAMBDA x : \A i \in DOMAIN on.factors : on.factors[i] # x),
     evidence |-> ev]

VeritasScore(on, off, ai, ev) ==
    [overall_score |-> OverallScore(on.score, off.score),
     confidence_level |-> Get(ai.v, "confidence", Num(70)),
     on_chain_score |-> on.score,
     off_chain_score |-> off.score,
     risk_factors |-> on.risks \o off.risks,
     positive_factors |-> on.factors \o off.factors,
     evidence |-> ev]

(***************************************************************************)
(* VeritasBlockchainAnalyzer._calculate_distribution_score.  A percentage  *)
(* is a float in the code; here it is counted in units of 1/PercentScale   *)
(* of a percent, so that 50.1 and 50 are different inputs.                 *)
(***************************************************************************)
PercentScale == 10

Percentages == 0..(100 * PercentScale)

Holder(p) == [address |-> Str("0x742d"), percentage |-> p]

HolderAnalyses ==
    {[total_holders |-> 0], [total_holders |-> 0, top_holders |-> <<>>]}
    \cup {[total_holders |-> 2500, top_holders |-> <<Holder(p)>>] :
             p \in Percentages}
    \cup {[total_holders |-> 2500, top_holders |-> <<Holder(p), Holder(q)>>] :
             p \in {5 * PercentScale, 50 * PercentScale},
             q \in {0, 60 * PercentScale}}

\* faulty variant: the first threshold compared with >= instead of >
CalculateDistributionScoreInclusive(holder_analysis) ==
    IF \/ "top_holders" \notin DOMAIN holder_analysis
       \/ Len(holder_analysis.top_holders) = 0
    THEN 50
    ELSE LET top_holder_percentage ==
                 holder_analysis.top_holders[1].percentage
         IN  IF top_holder_percentage >= 50 * PercentScale THEN 20
             ELSE IF top_holder_percentage > 30 * PercentScale THEN 40
             ELSE IF top_holder_percentage > 20 * PercentScale THEN 60
             ELSE IF top_holder_percentage > 10 * PercentScale THEN 80
             ELSE 95

\* faulty variant: the last threshold compared with >= instead of >
CalculateDistributionScoreTenInclusive(holder_analysis) ==
    IF \/ "top_holders" \notin DOMAIN holder_analysis
       \/ Len(holder_analysis.top_holders) = 0
    THEN 50
    ELSE LET top_holder_percentage ==
                 holder_analysis.top_holders[1].percentage
         IN  IF top_holder_percentage > 50 * PercentScale THEN 20
             ELSE IF top_holder_percentage > 30 * PercentScale THEN 40
             ELSE IF top_holder_percentage > 20 * PercentScale THEN 60
             ELSE IF top_holder_percentage >= 10 * PercentScale THEN 80
             ELSE 95

CalculateDistributionScore(holder_analysis) ==
    IF \/ "top_holders" \notin DOMAIN holder_analysis
       \/ Len(holder_analysis.top_holders) = 0
    THEN 50
    ELSE LET top_holder_percentage ==
                 holder_analysis.top_holders[1].percentage
         IN  IF top_holder_percentage > 50 * PercentScale THEN 20
             ELSE IF top_holder_percentage > 30 * PercentScale THEN 40
             ELSE IF top_holder_percentage > 20 * PercentScale THEN 60
             ELSE IF top_holder_percentage > 10 * PercentScale THEN 80
             ELSE 95

(***************************************************************************)
(* The audit: VeritasAgent.audit_project, one action per step.             *)
(* analysis_timestamp and the history entry's timestamp are left out: no   *)
(* step reads them.                                                        *)
(***************************************************************************)
Unset == [t |-> "unset"]

InitAudit ==
    /\ pc = "IDLE"
    /\ project_identifier = <<>>
    /\ project_data = Unset
    /\ on_chain = Unset
    /\ off_chain = Unset
    /\ evidence = Unset
    /\ ai_analysis = Unset
    /\ veritas_score = Unset
    /\ analysis_history = <<>>
    /\ oracle_reply = Unset
    /\ boundary_calls = <<>>

InitDist ==
    /\ dist_pc = "idle"
    /\ dist_input = EmptyDict
    /\ dist_score = 0

InitQuick ==
    /\ quick_pc = "idle"
    /\ quick_fetched = Unset
    /\ quick_score = 0

InitNorm ==
    /\ norm_pc = "idle"
    /\ norm_input = Unset
    /\ norm_output = Unset

\* one coroutine, outside any call
InitLoop ==
    /\ suspended = Unset
    /\ in_call = "none"
    /\ replies = <<>>

InitPure == InitDist /\ InitQuick /\ InitNorm

Init == InitAudit /\ InitPure /\ InitLoop

\* audit_project is called with identifier
StartAuditWith(identifier) ==
    /\ pc = "IDLE"
    /\ project_identifier' = identifier
    /\ pc' = "COLLECTING"
    /\ UNCHANGED <<project_data, on_chain, off_chain, evidence, ai_analysis,
                   veritas_score, analysis_history, oracle_reply,
                   boundary_calls>>
    /\ UNCHANGED pureVars

StartAudit ==
    /\ pc = "IDLE"
    /\ \E identifier \in Identifiers : StartAuditWith(identifier)
    /\ UNCHANGED loopVars

\* _collect_project_data, given what analyze_contract (called for an
\* address only) and quick_project_scan did
CollectProjectDataWith(fetched, scan) ==
    /\ pc = "COLLECTING"
    /\ LET pd == NewProjectData(project_identifier)
           is_address == IsAddressShaped(project_identifier)
       IN  /\ project_data' =
                [pd EXCEPT
                   !.on_chain_data =
                      IF is_address /\ fetched.ok
                      THEN BasicAnalysis(fetched.value) ELSE EmptyDict,
                   !.off_chain_data =
                      IF scan.ok THEN scan.value ELSE EmptyDict]
           /\ boundary_calls' =
                boundary_calls
                \o (IF is_address THEN <<Call("chain", fetched)>> ELSE <<>>)
                \o <<Call("offchain", scan)>>
    /\ pc' = "SCORING_ON_CHAIN"
    /\ UNCHANGED <<project_identifier, on_chain, off_chain, evidence,
                   ai_analysis, veritas_score, analysis_history, oracle_reply>>
    /\ UNCHANGED pureVars

CollectProjectData ==
    /\ pc = "COLLECTING"
    /\ \E fetched \in AnalyzeContract(project_identifier),
          scan \in QuickProjectScan(NewProjectData(project_identifier).name,
                                    NewProjectData(project_identifier).address) :
         CollectProjectDataWith(fetched, scan)
    /\ UNCHANGED loopVars

\* faulty variant: the provider's exception is not caught and ends the audit
AnalyzeOnChainDataReraising(first, second) ==
    /\ pc = "SCORING_ON_CHAIN"
    /\ IF ~Truthy(project_data.address)
       THEN /\ on_chain' = NoAddressResult
            /\ pc' = "SCORING_OFF_CHAIN"
            /\ UNCHANGED boundary_calls
       ELSE IF first.ok
       THEN /\ on_chain' =
                 OnChainResult(first.value, QuickContractScore(second))
            /\ pc' = "SCORING_OFF_CHAIN"
            /\ boundary_calls' =
                 boundary_calls
                 \o <<Call("chain", first), Call("chain", second)>>
       ELSE /\ pc' = "FAILED"
            /\ boundary_calls' =
                 Append(boundary_calls, Call("chain", first))
            /\ UNCHANGED on_chain
    /\ UNCHANGED <<project_identifier, project_data, off_chain, evidence,
                   ai_analysis, veritas_score, analysis_history, oracle_reply>>
    /\ UNCHANGED pureVars

\* _analyze_on_chain_data, given what its analyze_contract call (first)
\* and the one inside quick_contract_score (second) did; neither is made
\* without an address, the second only after the first returned
AnalyzeOnChainDataWith(first, second) ==
    /\ pc = "SCORING_ON_CHAIN"
    /\ IF ~Truthy(project_data.address)
       THEN /\ on_chain' = NoAddressResult
            /\ UNCHANGED boundary_calls
       ELSE IF first.ok
       THEN /\ on_chain' =
                 OnChainResult(first.value, QuickContractScore(second))
            /\ boundary_calls' =
                 boundary_calls
                 \o <<Call("chain", first), Call("chain", second)>>
       ELSE /\ on_chain' = AnalysisFailedResult(first.cause)
            /\ boundary_calls' =
                 Append(boundary_calls, Call("chain", first))
    /\ pc' = "SCORING_OFF_CHAIN"
    /\ UNCHANGED <<project_identifier, project_data, off_chain, evidence,
                   ai_analysis, veritas_score, analysis_history, oracle_reply>>
    /\ UNCHANGED pureVars

AnalyzeOnChainData ==
    /\ pc = "SCORING_ON_CHAIN"
    /\ \E first \in AnalyzeContract(project_identifier),
          second \in AnalyzeContract(project_identifier) :
         AnalyzeOnChainDataWith(first, second)
    /\ UNCHANGED loopVars

AnalyzeOffChainData ==
    /\ pc = "SCORING_OFF_CHAIN"
    /\ off_chain' = OffChainResult
    /\ pc' = "FUSING_EVIDENCE"
    /\ UNCHANGED <<project_identifier, project_data, on_chain, evidence,
                   ai_analysis, veritas_score, analysis_history, oracle_reply,
                   boundary_calls>>
    /\ UNCHANGED pureVars
    /\ UNCHANGED loopVars

\* _generate_veritas_score, the evidence dict
FuseEvidence ==
    /\ pc = "FUSING_EVIDENCE"
    /\ evidence' = Evidence(project_data, on_chain, off_chain)
    /\ pc' = "JUDGING"
    /\ UNCHANGED <<project_identifier, project_data, on_chain, off_chain,
                   ai_analysis, veritas_score, analysis_history, oracle_reply,
                   boundary_calls>>
    /\ UNCHANGED pureVars
    /\ UNCHANGED loopVars

\* _generate_veritas_score, the call of _ai_score_analysis
JudgeEvidenceWith(reply) ==
    /\ pc = "JUDGING"
    /\ oracle_reply' = reply
    /\ ai_analysis' = AiScoreAnalysis(reply)
    /\ boundary_calls' =
         Append(boundary_calls, Call("oracle", [ok |-> reply.kind # "raise"]))
    /\ pc' = "COMBINING"
    /\ UNCHANGED <<project_identifier, project_data, on_chain, off_chain,
                   evidence, veritas_score, analysis_history>>
    /\ UNCHANGED pureVars

JudgeEvidence ==
    /\ pc = "JUDGING"
    /\ \E reply \in OracleReplies : JudgeEvidenceWith(reply)
    /\ UNCHANGED loopVars

\* _generate_veritas_score, from the weighted score to the return;
\* ai_analysis.get raises AttributeError when the reply parsed to no dict
CombineScore ==
    /\ pc = "COMBINING"
    /\ IF ai_analysis.t = "dict"
       THEN /\ veritas_score' =
                 VeritasScore(on_chain, off_chain, ai_analysis, evidence)
            /\ pc' = "STORING"
       ELSE /\ UNCHANGED veritas_score
            /\ pc' = "FAILED"
    /\ UNCHANGED <<project_identifier, project_data, on_chain, off_chain,
                   evidence, ai_analysis, analysis_history, oracle_reply,
                   boundary_calls>>
    /\ UNCHANGED pureVars
    /\ UNCHANGED loopVars

\* faulty variant: the history is assigned a new one-entry list
StoreHistoryOverwriting ==
    /\ pc = "STORING"
    /\ analysis_history' =
         <<[project |-> project_identifier, score |-> veritas_score]>>
    /\ pc' = "DONE"
    /\ UNCHANGED <<project_identifier, project_data, on_chain, off_chain,
                   evidence, ai_analysis, veritas_score, oracle_reply,
                   boundary_calls>>
    /\ UNCHANGED pureVars
    /\ UNCHANGED loopVars

\* audit_project, the history append and the return
StoreHistory ==
    /\ pc = "STORING"
    /\ analysis_history' =
         Append(analysis_history,
                [project |-> project_identifier, score |-> veritas_score])
    /\ pc' = "DONE"
    /\ UNCHANGED <<project_identifier, project_data, on_chain, off_chain,
                   evidence, ai_analysis, veritas_score, oracle_reply,
                   boundary_calls>>
    /\ UNCHANGED pureVars
    /\ UNCHANGED loopVars

Next ==
    \/ StartAudit
    \/ CollectProjectData
    \/ AnalyzeOnChainData
    \/ AnalyzeOffChainData
    \/ FuseEvidence
    \/ JudgeEvidence
    \/ CombineScore
    \/ StoreHistory

Spec == Init /\ [][Next]_vars

(***************************************************************************)
(* _generate_veritas_score applied to any pair of sub-scores in 1..100:    *)
(* the scorers' dicts with the score replaced.                             *)
(***************************************************************************)
SubScores == MIN_SCORE..MAX_SCORE

InitCombine ==
    /\ pc = "COMBINING"
    /\ project_identifier = ProjectName
    /\ project_data = NewProjectData(ProjectName)
    /\ \E a \in SubScores : on_chain = [NoAddressResult EXCEPT !.score = a]
    /\ \E b \in SubScores : off_chain = [OffChainResult EXCEPT !.score = b]
    /\ evidence = Evidence(project_data, on_chain, off_chain)
    /\ oracle_reply = [kind |-> "raise"]
    /\ ai_analysis = AiScoreAnalysis(oracle_reply)
    /\ veritas_score = Unset
    /\ analysis_history = <<>>
    /\ boundary_calls = <<>>
    /\ InitPure
    /\ InitLoop

NextCombine == CombineScore \/ StoreHistory

SpecCombine == InitCombine /\ [][NextCombine]_vars

(***************************************************************************)
(* _calculate_distribution_score applied to any holder analysis.           *)
(***************************************************************************)
InitDistribution ==
    /\ InitAudit
    /\ dist_pc = "call"
    /\ dist_input \in HolderAnalyses
    /\ dist_score = 0
    /\ InitQuick
    /\ InitNorm
    /\ InitLoop

DistributionScore ==
    /\ dist_pc = "call"
    /\ dist_score' = CalculateDistributionScore(dist_input)
    /\ dist_pc' = "return"
    /\ UNCHANGED dist_input
    /\ UNCHANGED <<auditVars, quickVars, normVars, loopVars>>

NextDistribution == DistributionScore

SpecDistribution == InitDistribution /\ [][NextDistribution]_vars

(***************************************************************************)
(* VeritasAgent._serialize_analysis_data on any nested value.  A value is  *)
(* a record [t, v] tagged with its Python type: v holds the items of a     *)
(* dict, the attributes (__dict__) of an object, the elements of a list.   *)
(***************************************************************************)
Bool(b) == [t |-> "bool", v |-> b]

NoneValue == [t |-> "None", v |-> <<>>]

List(items) == [t |-> "list", v |-> items]

Tuple(items) == [t |-> "tuple", v |-> items]

\* a datetime: no __dict__, and nothing json.dumps accepts
DateTime == [t |-> "datetime", v |-> Str("2024-01-01T00:00:00")]

\* an instance of a class the normalizer does not know
Object(attrs) == [t |-> "object", v |-> attrs]

\* an instance of the ContractAnalysis dataclass
Dataclass(attrs) == [t |-> "ContractAnalysis", v |-> attrs]

\* getattr(value, name, default)
Getattr(value, name, default) ==
    IF name \in DOMAIN value.v THEN value.v[name] ELSE default

\* the dict built for an object under the key "analysis"
AnalysisDict(value) ==
    Dict([address |-> Getattr(value, "address", JsonStr(<<>>)),
          is_verified |-> Getattr(value, "is_verified", Bool(FALSE)),
          transaction_count |-> Getattr(value, "transaction_count", Num(0)),
          unique_interactors |-> Getattr(value, "unique_interactors", Num(0)),
          risk_factors |-> Getattr(value, "risk_factors", List(<<>>)),
          security_indicators |->
              Getattr(value, "security_indicators", List(<<>>))])

RECURSIVE Serialize(_)

Serialize(data) ==
    IF data.t = "dict"
    THEN Dict([key \in DOMAIN data.v |->
                  IF key = "analysis" /\ HasDict(data.v[key])
                  THEN AnalysisDict(data.v[key])
                  ELSE Serialize(data.v[key])])
    ELSE IF data.t = "list"
    THEN List([i \in DOMAIN data.v |-> Serialize(data.v[i])])
    ELSE IF HasDict(data)
    THEN Dict([k \in DOMAIN data.v |-> Serialize(data.v[k])])
    ELSE data

\* json.dumps accepts dicts with str keys, lists, tuples, numbers, strings,
\* booleans and None, and raises TypeError on anything else
RECURSIVE JsonSerializable(_)

JsonSerializable(x) ==
    IF x.t \in {"num", "str", "bool", "None"} THEN TRUE
    ELSE IF x.t \in {"list", "tuple"}
    THEN \A i \in DOMAIN x.v : JsonSerializable(x.v[i])
    ELSE IF x.t = "dict"
    THEN \A k \in DOMAIN x.v : JsonSerializable(x.v[k])
    ELSE FALSE

\* json.loads(json.dumps(x)) of a value json.dumps accepts: a tuple comes
\* back as a list
RECURSIVE JsonLoadsDumps(_)

JsonLoadsDumps(x) ==
    IF x.t \in {"list", "tuple"}
    THEN List([i \in DOMAIN x.v |-> JsonLoadsDumps(x.v[i])])
    ELSE IF x.t = "dict"
    THEN Dict([k \in DOMAIN x.v |-> JsonLoadsDumps(x.v[k])])
    ELSE x

JsonRoundTrip(x) ==
    IF JsonSerializable(x) THEN JsonLoadsDumps(x)
    ELSE [t |-> "TypeError", v |-> <<>>]

\* the values handed to the normalizer: scalars, a datetime, a tuple,
\* objects, and lists and dicts of these, nested twice
Scalars == {Num(1500), JsonStr(Str("0x742d")), Bool(TRUE), NoneValue}

KnownAnalysis ==
    Dataclass([address |-> JsonStr(Str("0x742d")),
               is_verified |-> Bool(TRUE),
               creation_date |-> DateTime,
               transaction_count |-> Num(1500),
               unique_interactors |-> Num(450),
               security_indicators |-> List(<<JsonStr(Str("Contract verified"))>>),
               risk_factors |-> List(<<JsonStr(Str("Owner has full control"))>>)])

Objects ==
    {KnownAnalysis,
     Object(EmptyDict),
     Object([foo |-> Num(1)]),
     Object([foo |-> Num(1), when |-> DateTime]),
     Object([address |-> Object([foo |-> Num(1)]),
             risk_factors |-> List(<<DateTime>>)])}

Flat == Scalars \cup {DateTime, Tuple(<<Num(1), Num(2)>>)} \cup Objects

ContainersOf(values) ==
    {List(<<>>)}
    \cup {List(<<a>>) : a \in values}
    \cup {Dict([analysis |-> a]) : a \in values}
    \cup {Dict([score |-> a]) : a \in values}

Nested ==
    Flat
    \cup ContainersOf(Flat)
    \cup {List(<<a, b>>) : a, b \in Flat}
    \cup {Dict([score |-> a, analysis |-> b]) : a, b \in Flat}

NormalizerInputs == Nested \cup ContainersOf(Nested)

InitNormalizer ==
    /\ InitAudit
    /\ InitDist
    /\ InitQuick
    /\ InitLoop
    /\ norm_pc = "call"
    /\ norm_input \in NormalizerInputs
    /\ norm_output = Unset

SerializeAnalysisDataCall ==
    /\ norm_pc = "call"
    /\ norm_output' = Serialize(norm_input)
    /\ norm_pc' = "return"
    /\ UNCHANGED norm_input
    /\ UNCHANGED <<auditVars, distVars, quickVars, loopVars>>

NextNormalizer == SerializeAnalysisDataCall

SpecNormalizer == InitNormalizer /\ [][NextNormalizer]_vars

(***************************************************************************)
(* Two audit_project coroutines of one agent on one event loop.  The audit *)
(* variables are the locals of the coroutine that runs, suspended holds    *)
(* those of the other one; analysis_history belongs to the agent and       *)
(* boundary_calls to the process.  The loop can run the other coroutine    *)
(* where the running one stands before an await or has returned; from the  *)
(* oracle's reply to the history append there is no await.  The chain      *)
(* fetch (w3.eth.get_code), the site fetch (trafilatura.fetch_url) and the *)
(* oracle call (chat.completions.create) are synchronous calls: the        *)
(* thread, and with it the loop, stays inside them until they return.      *)
(***************************************************************************)
Locals ==
    [pc |-> pc,
     project_identifier |-> project_identifier,
     project_data |-> project_data,
     on_chain |-> on_chain,
     off_chain |-> off_chain,
     evidence |-> evidence,
     ai_analysis |-> ai_analysis,
     veritas_score |-> veritas_score,
     oracle_reply |-> oracle_reply,
     replies |-> replies]

NotStarted ==
    [pc |-> "IDLE",
     project_identifier |-> <<>>,
     project_data |-> Unset,
     on_chain |-> Unset,
     off_chain |-> Unset,
     evidence |-> Unset,
     ai_analysis |-> Unset,
     veritas_score |-> Unset,
     oracle_reply |-> Unset,
     replies |-> <<>>]

Finished(locals) == locals.pc \in {"DONE", "FAILED"}

InitEventLoop ==
    /\ InitAudit
    /\ InitPure
    /\ suspended = NotStarted
    /\ in_call = "none"
    /\ replies = <<>>

\* the identifiers, provider outcomes and oracle replies of the two audits
LoopIdentifiers == {HexAddress, ProjectName}

\* the analysis the provider's stubs return today
TodaysFacts(address) ==
    ContractAnalysis(address, TRUE, 1500, 450,
                     <<Str("Contract verified"),
                       Str("No obvious vulnerabilities"),
                       Str("Standard patterns used")>>,
                     <<Str("Owner has full control"),
                       Str("No timelock on critical functions")>>)

LoopChain(identifier) ==
    AnalyzeContract(identifier)
    \cap {Raised(Str("Invalid address format")),
          Raised(Str("get_code failed")),
          Returned(TodaysFacts(identifier))}

LoopScans(identifier) ==
    {scan \in QuickProjectScan(NewProjectData(identifier).name,
                               NewProjectData(identifier).address) : scan.ok}

LoopReplies ==
    {[kind |-> "raise"],
     [kind |-> "json", value |-> Judgment(Num(90), "high")],
     [kind |-> "json", value |-> [t |-> "list", v |-> <<>>]]}

\* the first synchronous call the step at pc makes, if it makes one
CallOfStep ==
    IF pc = "COLLECTING"
    THEN (IF IsAddressShaped(project_identifier) THEN "chain" ELSE "offchain")
    ELSE IF pc = "SCORING_ON_CHAIN" /\ Truthy(project_data.address)
    THEN "chain"
    ELSE IF pc = "JUDGING" THEN "oracle"
    ELSE "none"

\* the running coroutine enters the synchronous call of its step
EnterCall ==
    /\ in_call = "none"
    /\ CallOfStep # "none"
    /\ in_call' = CallOfStep
    /\ UNCHANGED <<auditVars, pureVars, suspended, replies>>

LoopStartAudit ==
    /\ pc = "IDLE"
    /\ \E identifier \in LoopIdentifiers : StartAuditWith(identifier)
    /\ UNCHANGED loopVars

LoopCollectProjectData ==
    /\ pc = "COLLECTING"
    /\ in_call = CallOfStep
    /\ \E fetched \in LoopChain(project_identifier),
          scan \in LoopScans(project_identifier) :
         /\ CollectProjectDataWith(fetched, scan)
         /\ replies' =
              replies
              \o (IF IsAddressShaped(project_identifier)
                  THEN <<fetched>> ELSE <<>>)
              \o <<scan>>
    /\ in_call' = "none"
    /\ UNCHANGED suspended

LoopAnalyzeOnChainData ==
    /\ pc = "SCORING_ON_CHAIN"
    /\ in_call = CallOfStep
    /\ \E first \in LoopChain(project_identifier),
          second \in LoopChain(project_identifier) :
         /\ AnalyzeOnChainDataWith(first, second)
         /\ replies' =
              replies
              \o (IF ~Truthy(project_data.address) THEN <<>>
                  ELSE IF first.ok THEN <<first, second>>
                  ELSE <<first>>)
    /\ in_call' = "none"
    /\ UNCHANGED suspended

LoopJudgeEvidence ==
    /\ pc = "JUDGING"
    /\ in_call = CallOfStep
    /\ \E reply \in LoopReplies :
         /\ JudgeEvidenceWith(reply)
         /\ replies' = Append(replies, reply)
    /\ in_call' = "none"
    /\ UNCHANGED suspended

\* faulty variant: the on-chain result is kept on the agent, not in the
\* coroutine
SwitchSharingOnChain ==
    /\ in_call = "none"
    /\ pc \notin {"COMBINING", "STORING"}
    /\ ~Finished(suspended)
    /\ suspended' = Locals
    /\ pc' = suspended.pc
    /\ project_identifier' = suspended.project_identifier
    /\ project_data' = suspended.project_data
    /\ off_chain' = suspended.off_chain
    /\ evidence' = suspended.evidence
    /\ ai_analysis' = suspended.ai_analysis
    /\ veritas_score' = suspended.veritas_score
    /\ oracle_reply' = suspended.oracle_reply
    /\ replies' = suspended.replies
    /\ UNCHANGED <<on_chain, analysis_history, boundary_calls, in_call>>
    /\ UNCHANGED pureVars

\* the event loop runs the other coroutine
Switch ==
    /\ in_call = "none"
    /\ pc \notin {"COMBINING", "STORING"}
    /\ ~Finished(suspended)
    /\ suspended' = Locals
    /\ pc' = suspended.pc
    /\ project_identifier' = suspended.project_identifier
    /\ project_data' = suspended.project_data
    /\ on_chain' = suspended.on_chain
    /\ off_chain' = suspended.off_chain
    /\ evidence' = suspended.evidence
    /\ ai_analysis' = suspended.ai_analysis
    /\ veritas_score' = suspended.veritas_score
    /\ oracle_reply' = suspended.oracle_reply
    /\ replies' = suspended.replies
    /\ UNCHANGED <<analysis_history, boundary_calls, in_call>>
    /\ UNCHANGED pureVars

NextEventLoop ==
    \/ LoopStartAudit
    \/ EnterCall
    \/ LoopCollectProjectData
    \/ LoopAnalyzeOnChainData
    \/ AnalyzeOffChainData
    \/ FuseEvidence
    \/ LoopJudgeEvidence
    \/ CombineScore
    \/ StoreHistory
    \/ Switch

SpecEventLoop == InitEventLoop /\ [][NextEventLoop]_vars

(***************************************************************************)
(* quick_contract_score applied to whatever its analyze_contract call did. *)
(***************************************************************************)
InitQuickScore ==
    /\ InitAudit
    /\ InitDist
    /\ InitNorm
    /\ InitLoop
    /\ quick_pc = "call"
    /\ quick_fetched \in AnalyzeContract(HexAddress)
    /\ quick_score = 0

QuickContractScoreCall ==
    /\ quick_pc = "call"
    /\ quick_score' = QuickContractScore(quick_fetched)
    /\ quick_pc' = "return"
    /\ UNCHANGED quick_fetched
    /\ UNCHANGED <<auditVars, distVars, normVars, loopVars>>

NextQuickScore == QuickContractScoreCall

SpecQuickScore == InitQuickScore /\ [][NextQuickScore]_vars

(***************************************************************************)
(* Properties.                                                             *)
(***************************************************************************)
ScoreBuilt == pc \in {"STORING", "DONE"}

OnChainScored ==
    pc \in {"SCORING_OFF_CHAIN", "FUSING_EVIDENCE", "JUDGING", "COMBINING",
            "STORING", "DONE", "FAILED"}

Judged == pc \in {"COMBINING", "STORING", "DONE", "FAILED"}

\* round to the nearest integer of (6*on + 4*off)/10; no tie occurs, the
\* numerator being even
RoundWeighted(on, off) == (6 * on + 4 * off + 5) \div 10

\* C1: for every pair of sub-scores in 1..100 the overall score of the
\* record is round(on*0.6 + off*0.4) clamped into [1,100].
C1_OverallIsRounded ==
    ScoreBuilt =>
        veritas_score.overall_score =
            Max(1, Min(100, RoundWeighted(on_chain.score, off_chain.score)))

\* C2: every VeritasScore the audit builds has its three scores in 1..100,
\* on every path.
C2_ScoresInRange ==
    ScoreBuilt =>
        /\ veritas_score.overall_score \in 1..100
        /\ veritas_score.on_chain_score \in 1..100
        /\ veritas_score.off_chain_score \in 1..100

C2_Witness ==
    /\ pc = "DONE"
    /\ veritas_score.on_chain_score = 20
    /\ veritas_score.overall_score = 42

Bonus(condition, points) == IF condition THEN points ELSE 0

\* C3: on the path where the provider returned facts, the on-chain score is
\* 50 plus the four independent bonuses of those facts, clamped; the facts
\* {verified, 1500 transactions, 450 interactors, no risk} score 100 and get
\* no risk factor.
C3_ScoreIsBonusSum ==
    (OnChainScored /\ on_chain.analysis.t = "ContractAnalysis") =>
        LET facts == on_chain.analysis.v
        IN  /\ on_chain.score =
                 Max(1, Min(100,
                    50 + Bonus(facts.is_verified, 20)
                       + Bonus(facts.transaction_count > 100, 10)
                       + Bonus(facts.unique_interactors > 50, 10)
                       + Bonus(facts.risk_factors = <<>>, 10)))
            /\ (/\ facts.is_verified
                /\ facts.transaction_count = 1500
                /\ facts.unique_interactors = 450
                /\ facts.risk_factors = <<>>)
               => (on_chain.score = 100 /\ on_chain.risks = <<>>)

\* C4: an identifier that is not 42 characters starting with "0x" gets
\* score 30, no positive factor and the one risk "No contract address
\* provided"; the chain-facts provider is never called for it, and neither
\* collection nor on-chain scoring ends the audit.
C4_NoAddress ==
    (/\ OnChainScored
     /\ ~(Len(project_identifier) = 42
          /\ SubSeq(project_identifier, 1, 2) = <<"0", "x">>)) =>
        /\ on_chain.score = 30
        /\ on_chain.factors = <<>>
        /\ on_chain.risks = << <<"No contract address provided">> >>
        /\ \A i \in DOMAIN boundary_calls :
              boundary_calls[i].provider # "chain"
        /\ pc = "FAILED" => ai_analysis.t # "dict"
        /\ ScoreBuilt =>
              /\ veritas_score.on_chain_score = 30
              /\ veritas_score.risk_factors[1] =
                    <<"No contract address provided">>

C4_Witness ==
    /\ pc = "DONE"
    /\ project_identifier = LongAddress
    /\ veritas_score.on_chain_score = 30

ScoringCallFailed ==
    \E i \in DOMAIN boundary_calls :
        /\ boundary_calls[i].provider = "chain"
        /\ boundary_calls[i].step = "SCORING_ON_CHAIN"
        /\ ~boundary_calls[i].ok

\* C5: when a chain-facts call made by on-chain scoring fails, the result
\* is score 20, no positive factor and the single risk
\* "Analysis failed: <cause>".
C5_FailedProviderGives20 ==
    (OnChainScored /\ ScoringCallFailed) =>
        /\ on_chain.score = 20
        /\ on_chain.factors = <<>>
        /\ Len(on_chain.risks) = 1
        /\ on_chain.risks[1][1] = "Analysis failed: "

JudgmentFields == {"confidence", "key_insights", "risk_level", "recommendation"}

CompleteJudgment(j) ==
    /\ j.t = "dict"
    /\ JudgmentFields \subseteq DOMAIN j.v
    /\ j.v.confidence.t = "num"
    /\ j.v.risk_level \in {"low", "medium", "high"}

OracleGaveJudgment ==
    oracle_reply.kind = "json" /\ CompleteJudgment(oracle_reply.value)

\* C6: the record's confidence_level is the confidence of the oracle's
\* Judgment, and is 0.5 when the oracle raised, replied nothing or replied
\* something that is no complete Judgment; the audit completes either way.
C6_ConfidenceFromJudgment ==
    Judged =>
        /\ pc # "FAILED"
        /\ ScoreBuilt =>
              /\ veritas_score.confidence_level.t = "num"
              /\ veritas_score.confidence_level.v =
                    IF OracleGaveJudgment
                    THEN oracle_reply.value.v.confidence.v
                    ELSE 50

\* C7: whatever the oracle does, the adapter returns a Judgment with its
\* four fields and a risk level among low, medium, high, and the combining
\* step does not fail.
C7_JudgmentUsable ==
    Judged =>
        /\ ai_analysis.t = "dict"
        /\ JudgmentFields \subseteq DOMAIN ai_analysis.v
        /\ ai_analysis.v.risk_level \in {"low", "medium", "high"}
        /\ pc # "FAILED"

\* C8: the record's confidence_level is a number within [0,1].
C8_ConfidenceInRange ==
    ScoreBuilt =>
        /\ veritas_score.confidence_level.t = "num"
        /\ veritas_score.confidence_level.v \in 0..100

\* C9: the record's risk_factors is the on-chain risk list followed by the
\* off-chain one, element by element, and the same for positive_factors:
\* nothing dropped, nothing reordered, duplicates kept.
C9_FactorsConcatenated ==
    ScoreBuilt =>
        /\ Len(veritas_score.risk_factors)
              = Len(on_chain.risks) + Len(off_chain.risks)
        /\ \A i \in 1..Len(on_chain.risks) :
              veritas_score.risk_factors[i] = on_chain.risks[i]
        /\ \A i \in 1..Len(off_chain.risks) :
              veritas_score.risk_factors[Len(on_chain.risks) + i]
                 = off_chain.risks[i]
        /\ Len(veritas_score.positive_factors)
              = Len(on_chain.factors) + Len(off_chain.factors)
        /\ \A i \in 1..Len(on_chain.factors) :
              veritas_score.positive_factors[i] = on_chain.factors[i]
        /\ \A i \in 1..Len(off_chain.factors) :
              veritas_score.positive_factors[Len(on_chain.factors) + i]
                 = off_chain.factors[i]

HasDuplicate(list) ==
    \E i, j \in DOMAIN list : i < j /\ list[i] = list[j]

C9_Witness ==
    /\ pc = "DONE"
    /\ HasDuplicate(veritas_score.risk_factors)
    /\ HasDuplicate(veritas_score.positive_factors)
    /\ Len(on_chain.risks) > 1

HasHolders(h) == "top_holders" \in DOMAIN h /\ h.top_holders # <<>>

\* the claimed step function of the top holder's share p, p in units of
\* 1/PercentScale percent
StepOfShare(p) ==
    IF p > 50 * PercentScale THEN 20
    ELSE IF p > 30 * PercentScale /\ p <= 50 * PercentScale THEN 40
    ELSE IF p > 20 * PercentScale /\ p <= 30 * PercentScale THEN 60
    ELSE IF p > 10 * PercentScale /\ p <= 20 * PercentScale THEN 80
    ELSE 95

\* C10: the distribution score is the step function 20/40/60/80/95 of the
\* top holder's share, 50 without holder data, and no larger share gets a
\* higher score.
C10_DistributionStep ==
    dist_pc = "return" =>
        IF HasHolders(dist_input)
        THEN /\ dist_score = StepOfShare(dist_input.top_holders[1].percentage)
             /\ \A h \in HolderAnalyses :
                   (/\ HasHolders(h)
                    /\ h.top_holders[1].percentage
                          >= dist_input.top_holders[1].percentage)
                   => CalculateDistributionScore(h) <= dist_score
        ELSE dist_score = 50

C10_Witness ==
    /\ dist_pc = "return"
    /\ HasHolders(dist_input)
    /\ dist_input.top_holders[1].percentage = 30 * PercentScale + 1
    /\ dist_score = 40

\* the score returned for a holder list whose top holder has p percent
ScoreAtShare(p, score) ==
    (/\ dist_pc = "return"
     /\ HasHolders(dist_input)
     /\ dist_input.top_holders[1].percentage = p * PercentScale)
    => dist_score = score

\* C11 as stated: a top share of 50 scores 40 and a top share of 10 scores
\* 80; the shares 60, 45, 25, 15, 5 score 20, 40, 60, 80, 95.
C11_BoundariesAsStated ==
    /\ ScoreAtShare(50, 40)
    /\ ScoreAtShare(10, 80)
    /\ ScoreAtShare(60, 20)
    /\ ScoreAtShare(45, 40)
    /\ ScoreAtShare(25, 60)
    /\ ScoreAtShare(15, 80)
    /\ ScoreAtShare(5, 95)

\* C11, amended: a top share of 50 scores 40 and a top share of 10 scores
\* 95 (each threshold is compared with >); the shares 60, 45, 25, 15, 5
\* score 20, 40, 60, 80, 95.
C11_Boundaries ==
    /\ ScoreAtShare(50, 40)
    /\ ScoreAtShare(10, 95)
    /\ ScoreAtShare(60, 20)
    /\ ScoreAtShare(45, 40)
    /\ ScoreAtShare(25, 60)
    /\ ScoreAtShare(15, 80)
    /\ ScoreAtShare(5, 95)

C11_Witness ==
    /\ dist_pc = "return"
    /\ HasHolders(dist_input)
    /\ dist_input.top_holders[1].percentage = 10 * PercentScale
    /\ dist_score = 95

\* C12: whatever nested value the normalizer is given, its result holds
\* only primitives, sequences and mappings at every depth, and comes back
\* equal from json.dumps followed by json.loads.
C12_EvidenceRoundTrips ==
    norm_pc = "return" =>
        /\ JsonSerializable(norm_output)
        /\ JsonRoundTrip(norm_output) = norm_output

RECURSIVE CopiedFieldByField(_, _)

\* out has the shape of in, every object of a class the normalizer does not
\* know replaced by a mapping of that object's own fields
CopiedFieldByField(in, out) ==
    IF in.t \in {"dict", "object"}
    THEN /\ out.t = "dict"
         /\ DOMAIN out.v = DOMAIN in.v
         /\ \A k \in DOMAIN in.v : CopiedFieldByField(in.v[k], out.v[k])
    ELSE IF in.t = "list"
    THEN /\ out.t = "list"
         /\ DOMAIN out.v = DOMAIN in.v
         /\ \A i \in DOMAIN in.v : CopiedFieldByField(in.v[i], out.v[i])
    ELSE TRUE

\* C13: the normalizer returns a value for every nested input, and an
\* object of a class it does not know is copied field by field wherever
\* it stands in the input.
C13_NormalizerTotal ==
    norm_pc = "return" =>
        /\ norm_output # Unset
        /\ CopiedFieldByField(norm_input, norm_output)

\* on-chain scoring reported that the provider refused the address
RejectedAsInvalid ==
    /\ OnChainScored
    /\ on_chain.risks \in
          {<< <<"Analysis failed: ", "Invalid address format">> >>,
           << <<"Analysis failed: ", "Address is not a contract">> >>}

\* C14: when the provider rejects an address-shaped identifier as invalid
\* (no valid address, or no code deployed there), the audit fails hard and
\* returns no VeritasScore.
C14_InvalidAddressIsHardFailure ==
    RejectedAsInvalid => ~ScoreBuilt

ProviderCallFailed(provider) ==
    \E i \in DOMAIN boundary_calls :
        boundary_calls[i].provider = provider /\ ~boundary_calls[i].ok

VeritasScoreFields ==
    {"overall_score", "confidence_level", "on_chain_score", "off_chain_score",
     "risk_factors", "positive_factors", "evidence"}

\* C15: no failure of the chain-facts or off-chain provider, at collection
\* or at scoring, ends the audit (only a reply of the oracle that is no
\* mapping does); the record built after such a failure has all its fields,
\* the off-chain score is the scorer's own, and the on-chain score is a
\* fallback only when a chain call of on-chain scoring failed.
C15_ProviderFailureNeverAborts ==
    /\ pc = "FAILED" => ai_analysis.t \notin {"unset", "dict"}
    /\ (/\ ScoreBuilt
        /\ ProviderCallFailed("chain") \/ ProviderCallFailed("offchain")) =>
          /\ DOMAIN veritas_score = VeritasScoreFields
          /\ veritas_score.off_chain_score = OffChainResult.score
          /\ veritas_score.on_chain_score = on_chain.score
          /\ IF ~IsAddressShaped(project_identifier)
             THEN on_chain = NoAddressResult
             ELSE IF ScoringCallFailed
             THEN on_chain.score \in {20, 50}
             ELSE on_chain.analysis.t = "ContractAnalysis"

C15_Witness ==
    /\ pc = "DONE"
    /\ ProviderCallFailed("offchain")
    /\ ScoringCallFailed
    /\ veritas_score.on_chain_score = 20
    /\ veritas_score.off_chain_score = 75
    /\ veritas_score.overall_score = 42

\* the audits, of the two, that returned a VeritasScore
Completed ==
    (IF pc = "DONE" THEN 1 ELSE 0) + (IF suspended.pc = "DONE" THEN 1 ELSE 0)

FullyBuilt(score) == DOMAIN score = VeritasScoreFields

\* C16: the history changes only by the append of one entry, made by the
\* call that then returns, holding that call's identifier and its fully
\* built score; a call that fails leaves the history alone and has built no
\* score; the history is as long as the number of audits that returned a
\* score.
C16_HistoryAppendOnly ==
    [][/\ \/ analysis_history' = analysis_history
          \/ /\ pc = "STORING"
             /\ FullyBuilt(veritas_score)
             /\ analysis_history' =
                  Append(analysis_history,
                         [project |-> project_identifier,
                          score |-> veritas_score])
             /\ pc' = "DONE"
             /\ veritas_score' = veritas_score
       /\ (pc' = "FAILED" /\ pc # "FAILED") =>
             /\ analysis_history' = analysis_history
             /\ ~FullyBuilt(veritas_score')
       /\ Len(analysis_history') = Completed']_vars

C16_Witness ==
    /\ pc = "DONE"
    /\ suspended.pc = "FAILED"
    /\ Len(analysis_history) = 1
    /\ analysis_history[1].project = project_identifier
    /\ analysis_history[1].score = veritas_score

\* audit_project run alone on identifier, its boundary calls doing what r
\* lists: the record it returns, Unset when it raises
AuditAlone(identifier, r) ==
    LET is_address == IsAddressShaped(identifier)
        collected == IF is_address THEN 2 ELSE 1
        on == IF ~is_address THEN NoAddressResult
              ELSE IF r[collected + 1].ok
              THEN OnChainResult(r[collected + 1].value,
                                 QuickContractScore(r[collected + 2]))
              ELSE AnalysisFailedResult(r[collected + 1].cause)
        ai == AiScoreAnalysis(r[Len(r)])
    IN  IF ai.t = "dict"
        THEN VeritasScore(on, OffChainResult, ai,
                          Evidence(NewProjectData(identifier), on,
                                   OffChainResult))
        ELSE Unset

SameAsAlone(locals) ==
    Finished(locals) =>
        /\ FullyBuilt(locals.veritas_score) <=> locals.pc = "DONE"
        /\ locals.pc = "DONE" =>
              locals.veritas_score =
                  AuditAlone(locals.project_identifier, locals.replies)
        /\ locals.pc = "FAILED" =>
              AuditAlone(locals.project_identifier, locals.replies) = Unset

EntryOf(locals) ==
    IF locals.pc = "DONE"
    THEN <<[project |-> locals.project_identifier,
            score |-> locals.veritas_score]>>
    ELSE <<>>

\* C17: however the two audits interleave, each ends with the record it
\* returns when run alone on the same replies, and once both have ended the
\* history holds exactly the entries of those that returned a score, each
\* with its own identifier and score.
C17_ConcurrentAuditsIndependent ==
    /\ SameAsAlone(Locals)
    /\ SameAsAlone(suspended)
    /\ (Finished(Locals) /\ Finished(suspended)) =>
          \/ analysis_history = EntryOf(Locals) \o EntryOf(suspended)
          \/ analysis_history = EntryOf(suspended) \o EntryOf(Locals)

\* both audits returned a score, of different projects, and the two scans
\* of collection ran one right after the other
C17_Witness ==
    /\ pc = "DONE"
    /\ suspended.pc = "DONE"
    /\ Len(analysis_history) = 2
    /\ analysis_history[1].project # analysis_history[2].project
    /\ analysis_history[1].score.on_chain_score
          # analysis_history[2].score.on_chain_score
    /\ \E i \in 1..(Len(boundary_calls) - 1) :
          /\ boundary_calls[i].provider = "offchain"
          /\ boundary_calls[i + 1].step = "COLLECTING"

\* C18: while the running audit is inside a boundary call and the other
\* audit has not ended, the loop can run the other audit.
C18_AuditsDoNotBlock ==
    (in_call # "none" /\ ~Finished(suspended)) => ENABLED Switch

SameExcept(f, g, field) ==
    \A k \in DOMAIN f \ {field} : f[k] = g[k]

\* g is f with one bonus condition turned from false to true and nothing
\* else changed
FlipsOneBonus(f, g) ==
    \/ /\ SameExcept(f, g, "is_verified")
       /\ ~f.is_verified /\ g.is_verified
    \/ /\ SameExcept(f, g, "transaction_count")
       /\ f.transaction_count <= 100 /\ g.transaction_count > 100
    \/ /\ SameExcept(f, g, "unique_interactors")
       /\ f.unique_interactors <= 50 /\ g.unique_interactors > 50
    \/ /\ SameExcept(f, g, "risk_factors")
       /\ f.risk_factors # <<>> /\ g.risk_factors = <<>>

\* C20: facts that differ from the scored ones only by one bonus condition
\* turned from false to true never score lower.
C20_MonotonicBonus ==
    (quick_pc = "return" /\ quick_fetched.ok) =>
        \A g \in ChainFacts(HexAddress) :
            FlipsOneBonus(quick_fetched.value, g)
                => ContractScore(g) >= quick_score

C20_Witness ==
    /\ quick_pc = "return"
    /\ quick_fetched.ok
    /\ quick_fetched.value.risk_factors # <<>>
    /\ quick_score = 90
    /\ \E g \in ChainFacts(HexAddress) :
          /\ FlipsOneBonus(quick_fetched.value, g)
          /\ ContractScore(g) = 100

\* the position of a step in the audit's pipeline; done is audit_project's
\* history append (STORING) and its return (DONE), and FAILED (an exception
\* left audit_project) is no stage
StageOf(step) ==
    CASE step = "IDLE" -> 0
      [] step = "COLLECTING" -> 1
      [] step = "SCORING_ON_CHAIN" -> 2
      [] step = "SCORING_OFF_CHAIN" -> 3
      [] step = "FUSING_EVIDENCE" -> 4
      [] step = "JUDGING" -> 5
      [] step = "COMBINING" -> 6
      [] step = "STORING" -> 7
      [] step = "DONE" -> 8
      [] OTHER -> -1

BothSubScoresExist ==
    "score" \in DOMAIN on_chain /\ "score" \in DOMAIN off_chain

OracleReturned == "kind" \in DOMAIN oracle_reply

RecordBuilt == "overall_score" \in DOMAIN veritas_score

\* C21: an audit goes through collection, on-chain scoring, off-chain
\* scoring, evidence fusion, oracle judgment, combining and done, each step
\* leading to the next stage and to nothing else on every path; the oracle
\* is called only once both sub-scores exist, and the record is built only
\* after the oracle step has returned.
C21_LinearPipeline ==
    [][/\ pc' # pc => StageOf(pc') = StageOf(pc) + 1
       /\ pc' = pc => UNCHANGED auditVars
       /\ (OracleReturned' /\ ~OracleReturned) => BothSubScoresExist
       /\ (RecordBuilt' /\ ~RecordBuilt) =>
             (pc = "COMBINING" /\ OracleReturned)]_vars

CallsTo(provider) ==
    Cardinality({i \in DOMAIN boundary_calls :
                    boundary_calls[i].provider = provider})

\* C22: one audit crosses the boundary with at most one chain-facts call,
\* one off-chain call and one oracle call, and with nothing else: no
\* provider is called a second time for the same audit.
C22_OneCallPerProvider ==
    /\ \A i \in DOMAIN boundary_calls :
          boundary_calls[i].provider \in {"chain", "offchain", "oracle"}
    /\ CallsTo("chain") <= 1
    /\ CallsTo("offchain") <= 1
    /\ CallsTo("oracle") <= 1

\* C23: on the path where the provider returned facts, the positive factors
\* are the verification note (if verified), the activity note with the
\* transaction count (if above 100), the diversity note with the interactor
\* count (if above 50) and then the provider's security indicators in their
\* order; the risk factors are the provider's risks in their order, then the
\* low-activity warning (count below 10), then the unverified-source
\* warning; the facts kept in the result carry the provider's own lists.
C23_FactorListsComposed ==
    (OnChainScored /\ on_chain.analysis.t = "ContractAnalysis") =>
        LET facts == on_chain.analysis.v
            factors == on_chain.factors
            risks == on_chain.risks
            verified == Bonus(facts.is_verified, 1)
            active == Bonus(facts.transaction_count > 100, 1)
            diverse == Bonus(facts.unique_interactors > 50, 1)
            notes == verified + active + diverse
            given == Len(facts.risk_factors)
            low == Bonus(facts.transaction_count < 10, 1)
            unverified == Bonus(~facts.is_verified, 1)
        IN  /\ Len(factors) = notes + Len(facts.security_indicators)
            /\ verified = 1 =>
                  factors[1] = <<"Contract source code verified">>
            /\ active = 1 =>
                  factors[verified + 1] =
                     <<"Active usage (", ToString(facts.transaction_count),
                       " transactions)">>
            /\ diverse = 1 =>
                  factors[verified + active + 1] =
                     <<"Diverse user base (",
                       ToString(facts.unique_interactors), " unique users)">>
            /\ \A i \in DOMAIN facts.security_indicators :
                  factors[notes + i] = facts.security_indicators[i]
            /\ Len(risks) = given + low + unverified
            /\ \A i \in DOMAIN facts.risk_factors :
                  risks[i] = facts.risk_factors[i]
            /\ low = 1 =>
                  risks[given + 1] = <<"Very low transaction activity">>
            /\ unverified = 1 =>
                  risks[given + low + 1] =
                     <<"Contract source code not verified">>
            /\ facts.risk_factors \in RiskLists
            /\ facts.security_indicators \in IndicatorLists

C23_Witness ==
    /\ pc = "DONE"
    /\ on_chain.analysis.t = "ContractAnalysis"
    /\ ~on_chain.analysis.v.is_verified
    /\ on_chain.analysis.v.transaction_count = 9
    /\ on_chain.analysis.v.unique_interactors = 450
    /\ Len(on_chain.analysis.v.security_indicators) = 3
    /\ Len(on_chain.analysis.v.risk_factors) = 2
    /\ Len(on_chain.factors) = 4
    /\ Len(on_chain.risks) = 4

SixFields ==
    {"address", "is_verified", "transaction_count", "unique_interactors",
     "risk_factors", "security_indicators"}

\* the default of a field the object does not have
DefaultOf(field) ==
    CASE field = "address" -> JsonStr(<<>>)
      [] field = "is_verified" -> Bool(FALSE)
      [] field \in {"transaction_count", "unique_interactors"} -> Num(0)
      [] OTHER -> List(<<>>)

\* out is the record of the six named fields of the object in
SixFieldRecord(in, out) ==
    /\ out.t = "dict"
    /\ DOMAIN out.v = SixFields
    /\ \A field \in SixFields :
          IF field \in DOMAIN in.v
          THEN out.v[field].t = in.v[field].t /\ out.v[field] = in.v[field]
          ELSE out.v[field].t = DefaultOf(field).t
               /\ out.v[field] = DefaultOf(field)

RECURSIVE NormalizedAsStated(_, _)

\* out has the keys of every mapping and the elements of every list of in,
\* every object replaced by its six-field record and every primitive kept
NormalizedAsStated(in, out) ==
    IF in.t \in {"object", "ContractAnalysis"}
    THEN SixFieldRecord(in, out)
    ELSE IF in.t = "dict"
    THEN /\ out.t = "dict"
         /\ DOMAIN out.v = DOMAIN in.v
         /\ \A k \in DOMAIN in.v : NormalizedAsStated(in.v[k], out.v[k])
    ELSE IF in.t = "list"
    THEN /\ out.t = "list"
         /\ DOMAIN out.v = DOMAIN in.v
         /\ \A i \in DOMAIN in.v : NormalizedAsStated(in.v[i], out.v[i])
    ELSE IF in.t \in {"num", "str", "bool", "None"}
    THEN out = in
    ELSE TRUE

\* C24: wherever an object stands in the input, the normalizer puts the
\* record of exactly the six fields address, is_verified, transaction_count,
\* unique_interactors, risk_factors and security_indicators, each read from
\* the object or else its default; mappings keep their keys, lists their
\* elements in order, and primitive scalars pass through unchanged.
C24_SixFieldsEverywhere ==
    norm_pc = "return" => NormalizedAsStated(norm_input, norm_output)

\* the oracle call raised or gave nothing json.loads accepts, and the
\* default judgment was substituted
OracleCallFailed == OracleReturned /\ oracle_reply.kind # "json"

\* C25: every degraded path of an audit shows in the returned record as a
\* risk-factor string: after a failed chain-facts call of on-chain scoring
\* the record's risk factors hold a string starting with "Analysis failed:",
\* and after a failed oracle call they hold a string beyond those of the two
\* sub-scores.
C25_DegradedPathsVisible ==
    ScoreBuilt =>
        /\ ScoringCallFailed =>
              \E i \in DOMAIN veritas_score.risk_factors :
                  veritas_score.risk_factors[i][1] = "Analysis failed: "
        /\ OracleCallFailed =>
              Len(veritas_score.risk_factors) >
                  Len(on_chain.risks) + Len(off_chain.risks)

\* the on-chain result lists a positive factor that starts with note
Lists(note) ==
    \E i \in DOMAIN on_chain.factors : on_chain.factors[i][1] = note

\* C26: the score of a successful on-chain result is the score of the very
\* facts its factor lists were built from, not of another fetch and not a
\* fallback: a result that lists "Contract source code verified" has the 20
\* points of verification in its score, and a result with score 50 lists
\* neither the verification note nor the activity note.
C26_ScoreOfTheListedFacts ==
    (OnChainScored /\ on_chain.analysis.t = "ContractAnalysis") =>
        /\ on_chain.score = ContractScore(on_chain.analysis.v)
        /\ Lists("Contract source code verified") => on_chain.score >= 70
        /\ on_chain.score = 50 =>
              /\ ~Lists("Contract source code verified")
              /\ ~Lists("Active usage (")

====
